---- MODULE Spec2Model ----
(***************************************************************************)
(* Clinical text analysis and multi-provider consensus engine             *)
(* (services/aiService): the lazily initialised sentiment classifier, the  *)
(* provider clients, compareAllModels, getConsensusResult, and the         *)
(* analyzeTranscription handler of the visit pages that drives them.       *)
(*                                                                         *)
(* JavaScript runs one synchronous segment at a time; an async function is *)
(* cut at its awaits.  Every action below is one such segment: the code    *)
(* from a call or a resumed await up to the next await or return.          *)
(***************************************************************************)
EXTENDS Integers, Sequences, FiniteSets, TLC

\* Number of invocations of analyzeSentiment / preloadSentimentModel that are
\* followed (each invocation runs once, from its call to its return).
MaxCalls == 3

Calls == 1..MaxCalls

\* The invocation of analyzeSentiment made by getConsensusResult.
ConsensusCall == 1

\* The invocation of preloadSentimentModel made by the App effect.
PreloadCall == 2

ProviderIds == {"openai", "ollama"}

\* The progress sinks a caller passes: none, or a function that returns, as
\* the sink of the visit pages does (NewVisit.jsx:294-297).
SinkKinds == {"absent", "returns"}

VARIABLES
  \* ---- module state of the sentiment classifier (part_001:7-9) ----
  sentimentClassifier,    \* 0 = null, else the id of the load that produced it
  isInitializing,
  initializationPromise,  \* 0 = null, else the id of the load's promise
  \* ---- the promises created by initializeSentimentClassifier ----
  promiseState,           \* load id -> "none" | "pending" | "resolved" | "rejected"
  pipelineInFlight,       \* load ids whose pipeline(...) call has not settled
  \* ---- invocations of analyzeSentiment / preloadSentimentModel ----
  callKind,               \* "none" | "analyzeSentiment" | "preloadSentimentModel"
  callPc,                 \* "idle" | "awaitInit" | "awaitClassifier" | "done"
  callAwait,              \* the load promise the invocation awaits (0 = none)
  callClassifier,         \* the classifier instance the invocation obtained (0 = none)
  callThrown,             \* where the primary path threw: "none" | "init_own" | "init_shared" | "classifier"
  callResult,             \* "none" | analysis_type | "true" | "false" | "rejected"
  \* ---- one run of the analyzeTranscription handler ----
  apiKey,                 \* OPENAI_API_KEY is configured
  onProgress,             \* "absent" | "returns": the progress sink passed in
  cmpPc,                  \* position of the handler
  provState,              \* provider -> "notStarted" | "fetching" | "readingBody" | "resolved" | "rejected"
  provValue,              \* provider -> what its call settled with
  provBody,               \* provider -> the body its response carried ("none" before it is read)
  fetchCount,             \* provider -> number of fetch requests issued
  results,                \* the Comparison Result under construction
  progress,               \* the events the sink received, in order
  cmpOutcome,             \* "none" | "resolved" | "rejected": compareAllModels' promise
  consensus,              \* "unset" | "null" | the consensus bundle
  handlerOutcome,         \* "none" | "all_failed_alert" | "visit_created"
  \* ---- one call of analyzeKeywords ----
  text,                   \* the text passed in
  keywordAnalysis,        \* what the call returned
  \* ---- one computation of a sentiment result ----
  sentimentInput,         \* the classifier's answer and the fallback's counts
  sentimentOutput,        \* the result analyzeSentiment returns
  \* ---- one call of analyzeSemantics ----
  semanticAnalysis,       \* what the call returned
  \* ---- what analyzeTranscription hands on ----
  handler,                \* the revision of the handler that runs, or "none"
  transcription,          \* visitData.transcription
  cmpInput,               \* first argument of compareAllModels
  prompts,                \* what each provider's prompt quotes ("": no prompt)
  consensusInput,         \* second argument of getConsensusResult
  \* ---- the patient and visit store and the Patients page ----
  storePatients,          \* ids of the stored patients
  storeVisits,            \* the stored visits: [id, patient_id]
  visitsQuery,            \* the Patients page's copy of the visits
  createCalls,            \* the calls of Visit.create
  deletePc,               \* where deletePatientMutation is
  deleteTarget,           \* the patient it deletes
  pendingDeletes,         \* ids whose Visit.delete has not removed them yet
  \* ---- the TranscriptionService singleton (part_001:531-709) ----
  socket,                 \* this.socket: 0 = null, else the id of the socket
  sessionId,              \* this.sessionId: 0 = null, else the start() that set it
  isRecording,            \* this.isRecording
  listeners,              \* this.listeners
  sockState,              \* socket id -> "absent" | "connecting" | "connected" | "closed"
  connPromise,            \* socket id -> state of the promise of the connect() that made it
  startPc,                \* start() call -> "idle" | "awaitConnect" | "awaitFetch" | "done" | "already_running" | "failed"
  startAwait,             \* start() call -> the socket whose connect promise it awaits (0: Promise.resolve())
  startRequests,          \* the session ids POSTed to /api/transcription/start, in order
  stopPc,                 \* "idle" | "awaitFetch": the stop() call
  updatesEmitted,         \* number of transcription_update events the server emitted
  inbox,                  \* socket id -> the events that arrived and wait for their handler
  delivered               \* listener -> update -> times notifyListeners called it

sentVars == <<sentimentClassifier, isInitializing, initializationPromise,
              promiseState, pipelineInFlight>>
callVars == <<callKind, callPc, callAwait, callClassifier, callThrown, callResult>>
cmpVars  == <<apiKey, onProgress, cmpPc, provState, provValue, provBody, fetchCount,
              results, progress, cmpOutcome, consensus, handlerOutcome>>
kwVars   == <<text, keywordAnalysis>>
scoreVars == <<sentimentInput, sentimentOutput>>
flowVars == <<handler, transcription, cmpInput, prompts, consensusInput>>
serviceVars == <<sentVars, callVars, cmpVars, flowVars>>
storeVars == <<storePatients, storeVisits, visitsQuery, createCalls, deletePc,
               deleteTarget, pendingDeletes>>
semVars == <<semanticAnalysis>>
pureVars == <<kwVars, scoreVars, semVars>>
tsVars == <<socket, sessionId, isRecording, listeners, sockState, connPromise,
            startPc, startAwait, startRequests, stopPc, updatesEmitted, inbox,
            delivered>>
appVars == <<storeVars, tsVars>>
analysisVars == <<pureVars, appVars>>
vars == <<serviceVars, analysisVars>>

----------------------------------------------------------------------------
(* initializeSentimentClassifier, part_001:12-38                           *)

\* InitBranch without the isInitializing guard of lines 15-17.
InitBranch_NoShare(classifier, initializing) ==
  IF classifier # 0 THEN "ready" ELSE "load"

\* InitBranch without the early return of line 13, the guard of line 15
\* holding only while no classifier exists.
InitBranch_NoReady(classifier, initializing) ==
  IF initializing /\ classifier = 0 THEN "share" ELSE "load"

\* Which way the guards of lines 13-17 send a call.
InitBranch(classifier, initializing) ==
  IF classifier # 0 THEN "ready"
  ELSE IF initializing THEN "share"
  ELSE "load"

\* FlagAfterLoad without the reset of line 32.
FlagAfterLoad_NoReset(ok, flag) == flag

\* The value of isInitializing after the load settles: the success path
\* leaves it alone (lines 24-29), the catch clears it (line 32).
FlagAfterLoad(ok, flag) == IF ok THEN flag ELSE FALSE

\* The synchronous part of initializeSentimentClassifier run by invocation c.
\* A new load takes c as the id of its promise and of the instance it yields.
InitializeSentimentClassifier(c) ==
  LET branch == InitBranch(sentimentClassifier, isInitializing) IN
  /\ IF branch = "load"
       THEN /\ isInitializing' = TRUE
            /\ promiseState' = [promiseState EXCEPT ![c] = "pending"]
            /\ pipelineInFlight' = pipelineInFlight \cup {c}
            /\ initializationPromise' = c
       ELSE UNCHANGED <<isInitializing, promiseState, pipelineInFlight,
                        initializationPromise>>
  /\ UNCHANGED sentimentClassifier
  /\ callAwait' = [callAwait EXCEPT ![c] =
                     IF branch = "ready" THEN 0
                     ELSE IF branch = "share" THEN initializationPromise
                     ELSE c]
  /\ callClassifier' = [callClassifier EXCEPT ![c] =
                     IF branch = "ready" THEN sentimentClassifier ELSE 0]

\* AnalyzeOutcome with a catch that rethrows instead of falling back.
AnalyzeOutcome_Rethrow(threw) ==
  IF threw THEN "rejected" ELSE "transformers_bert"

\* What analyzeSentiment's try/catch (lines 181-223) makes of its primary
\* path: the catch returns analyzeSentimentFallback(text), whose
\* analysis_type is rule_based_fallback (line 272).
AnalyzeOutcome(threw) ==
  IF threw THEN "rule_based_fallback" ELSE "transformers_bert"

\* What preloadSentimentModel's try/catch (lines 517-525) returns.
PreloadOutcome(threw) == IF threw THEN "false" ELSE "true"

\* analyzeSentiment(text) is called: line 183 runs initializeSentimentClassifier.
\* With a classifier at hand the await of line 183 yields it and line 186
\* calls it.
EnterAnalyzeSentiment(c) ==
  /\ callPc[c] = "idle"
  /\ InitializeSentimentClassifier(c)
  /\ callKind' = [callKind EXCEPT ![c] = "analyzeSentiment"]
  /\ callPc' = [callPc EXCEPT ![c] =
        IF InitBranch(sentimentClassifier, isInitializing) = "ready"
          THEN "awaitClassifier" ELSE "awaitInit"]
  /\ UNCHANGED <<callThrown, callResult>>

AnalyzeSentiment(c) ==
  /\ EnterAnalyzeSentiment(c)
  /\ UNCHANGED <<cmpVars, flowVars, analysisVars>>

\* preloadSentimentModel() is called (part_001:516-526, from the App effect
\* part_002:47-55).
PreloadSentimentModel(c) ==
  /\ callPc[c] = "idle"
  /\ InitializeSentimentClassifier(c)
  /\ callKind' = [callKind EXCEPT ![c] = "preloadSentimentModel"]
  /\ LET ready == InitBranch(sentimentClassifier, isInitializing) = "ready" IN
     /\ callPc' = [callPc EXCEPT ![c] = IF ready THEN "done" ELSE "awaitInit"]
     /\ callResult' = [callResult EXCEPT ![c] =
                         IF ready THEN PreloadOutcome(FALSE) ELSE @]
  /\ UNCHANGED <<flowVars, analysisVars, callThrown, cmpVars>>

\* pipeline(...) settles and the async body of lines 22-35 resumes.
PipelineSettles(p, ok) ==
  /\ p \in pipelineInFlight
  /\ pipelineInFlight' = pipelineInFlight \ {p}
  /\ sentimentClassifier' = IF ok THEN p ELSE sentimentClassifier
  /\ isInitializing' = FlagAfterLoad(ok, isInitializing)
  /\ promiseState' = [promiseState EXCEPT ![p] =
                        IF ok THEN "resolved" ELSE "rejected"]
  /\ UNCHANGED <<flowVars, analysisVars, initializationPromise, callVars, cmpVars>>

PipelineResolves(p) == PipelineSettles(p, TRUE)
PipelineRejects(p) == PipelineSettles(p, FALSE)

\* The await of initializeSentimentClassifier() resumes in invocation c
\* (line 183 of analyzeSentiment, line 519 of preloadSentimentModel).
ResumeInit(c) ==
  /\ callPc[c] = "awaitInit"
  /\ promiseState[callAwait[c]] \in {"resolved", "rejected"}
  /\ LET threw == promiseState[callAwait[c]] = "rejected"
         cause == IF callAwait[c] = c THEN "init_own" ELSE "init_shared"
     IN
     IF callKind[c] = "analyzeSentiment"
       THEN IF threw
              THEN /\ callPc' = [callPc EXCEPT ![c] = "done"]
                   /\ callThrown' = [callThrown EXCEPT ![c] = cause]
                   /\ callResult' = [callResult EXCEPT ![c] = AnalyzeOutcome(TRUE)]
                   /\ UNCHANGED callClassifier
              ELSE /\ callPc' = [callPc EXCEPT ![c] = "awaitClassifier"]
                   /\ callClassifier' = [callClassifier EXCEPT ![c] = callAwait[c]]
                   /\ UNCHANGED <<callThrown, callResult>>
       ELSE /\ callPc' = [callPc EXCEPT ![c] = "done"]
            /\ callThrown' = [callThrown EXCEPT ![c] = IF threw THEN cause ELSE @]
            /\ callResult' = [callResult EXCEPT ![c] = PreloadOutcome(threw)]
            /\ UNCHANGED callClassifier
  /\ UNCHANGED <<flowVars, analysisVars, callKind, callAwait, sentVars, cmpVars>>

\* classifier(text) settles (line 186); lines 189-216 build the result, or
\* the catch of line 218 takes over when the classifier threw or its result
\* has no label.
ClassifierSettles(c, ok) ==
  /\ callPc[c] = "awaitClassifier"
  /\ callPc' = [callPc EXCEPT ![c] = "done"]
  /\ callThrown' = [callThrown EXCEPT ![c] = IF ok THEN @ ELSE "classifier"]
  /\ callResult' = [callResult EXCEPT ![c] = AnalyzeOutcome(~ok)]
  /\ UNCHANGED <<flowVars, analysisVars, callKind, callAwait, callClassifier, sentVars, cmpVars>>

ClassifierReturns(c) == ClassifierSettles(c, TRUE)
ClassifierThrows(c) == ClassifierSettles(c, FALSE)

----------------------------------------------------------------------------
(* Provider clients, part_001:358-444                                      *)

NULL == "null"
UNDEFINED == "undefined"

\* Settled without the rejection: an await that resumes only on fulfilment.
Settled_OnlyResolved == {"resolved"}

\* The states of a promise that lets its await resume.
Settled == {"resolved", "rejected"}

ErrorPrefix(p) == IF p = "openai" THEN "OpenAI" ELSE "Ollama"

\* CallProvider without the key test of lines 359-361.
CallProvider_NoKeyTest(p, key) ==
  [state |-> "fetching", value |-> "none", fetches |-> 1]

\* The synchronous start of callOpenAI / callOllama: callOpenAI throws when
\* the key is missing (lines 359-361), otherwise the one fetch of the client
\* is issued (lines 379, 425).
CallProvider(p, key) ==
  IF p = "openai" /\ ~key
    THEN [state |-> "rejected", value |-> "OpenAI API key not configured", fetches |-> 0]
    ELSE [state |-> "fetching", value |-> "none", fetches |-> 1]

FetchReplies == {"network_error", "not_ok", "ok"}

\* AfterFetch with a client that sends the request again after a network error.
AfterFetch_Retry(p, reply) ==
  IF reply = "network_error"
    THEN [state |-> "fetching", value |-> "none", fetches |-> 1]
  ELSE IF reply = "not_ok"
    THEN [state |-> "rejected", value |-> ErrorPrefix(p) \o " API error", fetches |-> 0]
  ELSE [state |-> "readingBody", value |-> "none", fetches |-> 0]

\* What the await of fetch and the response.ok test make of the reply
\* (lines 379-398, 425-440).
\* No branch issues another request.
AfterFetch(p, reply) ==
  IF reply = "network_error"
    THEN [state |-> "rejected", value |-> "Failed to fetch", fetches |-> 0]
  ELSE IF reply = "not_ok"
    THEN [state |-> "rejected", value |-> ErrorPrefix(p) \o " API error", fetches |-> 0]
  ELSE [state |-> "readingBody", value |-> "none", fetches |-> 0]

\* The bodies a provider can send: one that is not JSON or lacks the content
\* field, JSON of another shape, and a diagnostic suggestion.
Bodies == {"unparsable", "wrong_shape", "suggestion"}

\* The diagnostic a client returns: whatever JSON.parse yields (lines 404, 443).
Diagnostic(p, body) == p \o ":" \o body

\* response.json(), the field access and JSON.parse (lines 400-404, 442-443).
AfterBody(p, body) ==
  IF body = "unparsable"
    THEN [state |-> "rejected", value |-> "Unexpected token in JSON"]
    ELSE [state |-> "resolved", value |-> Diagnostic(p, body)]

\* The provider answers the fetch.
FetchSettles(p, reply) ==
  /\ provState[p] = "fetching"
  /\ provState' = [provState EXCEPT ![p] = AfterFetch(p, reply).state]
  /\ provValue' = [provValue EXCEPT ![p] = AfterFetch(p, reply).value]
  /\ fetchCount' = [fetchCount EXCEPT ![p] = @ + AfterFetch(p, reply).fetches]
  /\ UNCHANGED <<flowVars, analysisVars, provBody, apiKey, onProgress, cmpPc, results, progress,
                 cmpOutcome, consensus, handlerOutcome, sentVars, callVars>>

\* The body of the response has been read.
BodySettles(p, body) ==
  /\ provState[p] = "readingBody"
  /\ provState' = [provState EXCEPT ![p] = AfterBody(p, body).state]
  /\ provValue' = [provValue EXCEPT ![p] = AfterBody(p, body).value]
  /\ provBody' = [provBody EXCEPT ![p] = body]
  /\ UNCHANGED <<flowVars, analysisVars, apiKey, onProgress, cmpPc, fetchCount, results, progress,
                 cmpOutcome, consensus, handlerOutcome, sentVars, callVars>>

----------------------------------------------------------------------------
(* compareAllModels, part_001:448-480                                      *)

\* const results = { openai: null, ollama: null, errors: {} }  (lines 449-453)
EmptyResults ==
  [slot |-> [p \in ProviderIds |-> NULL],
   errors |-> [p \in ProviderIds |-> UNDEFINED]]

\* if (onProgress) onProgress(p, status)
Emit(sink, events, p, status) ==
  IF sink = "absent" THEN events ELSE Append(events, <<p, status>>)

\* RecordOutcome with a catch that records nothing.
RecordOutcome_DropError(res, p, state, value) ==
  IF state = "resolved" THEN [res EXCEPT !.slot[p] = value] ELSE res

\* The rest of a try block after its await, or its catch
\* (lines 459 / 463, 471 / 475).
RecordOutcome(res, p, state, value) ==
  IF state = "resolved"
    THEN [res EXCEPT !.slot[p] = value]
    ELSE [res EXCEPT !.errors[p] = value]

\* TerminalStatus reporting every settled call as complete.
TerminalStatus_AlwaysComplete(state) == "complete"

\* The event that closes a provider's block (lines 460 / 464, 472 / 476).
TerminalStatus(state) == IF state = "resolved" THEN "complete" ELSE "error"

\* AfterTryBlock without the catch: a provider error leaves the function.
AfterTryBlock_NoCatch(state) == IF state = "rejected" THEN "throw" ELSE "continue"

\* Where control goes after a provider's try/catch: the catch swallows the
\* error, so the function goes on to the next statement.
AfterTryBlock(state) == "continue"

\* The two revisions of analyzeTranscription in the sources.
Handlers == {"NewVisit.jsx", "VisitDetails.jsx"}

\* Transcriptions that pass the handler's test of line 281 (not empty).
Transcriptions == {"chest pain", "feel dizzy"}

NoInput == [kind |-> "none", transcription |-> ""]

\* The first argument of compareAllModels: NewVisit.jsx:294 passes visitData,
\* the object of the form's fields, VisitDetails.jsx:800 passes
\* visitData.transcription.
CompareInput(h, t) ==
  IF h = "NewVisit.jsx"
    THEN [kind |-> "object", transcription |-> t]
    ELSE [kind |-> "string", transcription |-> t]

\* `${transcription}` in the prompt templates of lines 363-375 and 409-421: a
\* string as it is, an object by Object.prototype.toString.
Interpolate(input) ==
  IF input.kind = "string" THEN input.transcription ELSE "[object Object]"

\* What the prompt of provider p quotes; callOpenAI throws before it builds
\* the prompt when the key is missing (lines 359-361).
PromptOf(p, key, input) ==
  IF CallProvider(p, key).fetches = 0 THEN "" ELSE Interpolate(input)

\* The sinks compareAllModels may be given altogether: also sinks that
\* throw, at every call, at "running" or at "complete".
AllSinkKinds == SinkKinds \cup {"throws", "throws_on_running", "throws_on_complete"}

\* The call onProgress(p, status) throws.
SinkThrows(sink, p, status) ==
  \/ sink = "throws"
  \/ sink = "throws_on_running" /\ status = "running"
  \/ sink = "throws_on_complete" /\ status = "complete"

\* error.message of what a sink throws.
SinkError == "sink error"

\* The catch of a provider's block (lines 461-465, 473-477) entered with an
\* error of the given message: it records the message and reports "error";
\* an exception of that report leaves compareAllModels.
CatchBlock(sink, res, events, p, message) ==
  [res |-> RecordOutcome(res, p, "rejected", message),
   events |-> Emit(sink, events, p, "error"),
   next |-> IF SinkThrows(sink, p, "error") THEN "throw" ELSE "continue"]

\* A provider's block from the resumption of its await to its end
\* (lines 458-465, 470-477): the try goes on, storing the diagnostic and
\* reporting "complete", or the catch runs, for the provider's error or for
\* an exception of the report.
EndBlock(sink, res, events, p, state, value) ==
  IF AfterTryBlock(state) # "continue"
    THEN [res |-> RecordOutcome(res, p, state, value), events |-> events, next |-> "throw"]
  ELSE IF state # "resolved"
    THEN [res |-> RecordOutcome(res, p, state, value),
          events |-> Emit(sink, events, p, TerminalStatus(state)),
          next |-> IF SinkThrows(sink, p, TerminalStatus(state)) THEN "throw" ELSE "continue"]
  ELSE IF SinkThrows(sink, p, TerminalStatus(state))
    THEN CatchBlock(sink, RecordOutcome(res, p, state, value),
                    Emit(sink, events, p, TerminalStatus(state)), p, SinkError)
  ELSE [res |-> RecordOutcome(res, p, state, value),
        events |-> Emit(sink, events, p, TerminalStatus(state)),
        next |-> "continue"]

\* The synchronous run of compareAllModels from the start of provider p's
\* block (lines 456-458, 468-470) to the next await, the return of line 479
\* or an exception: "running" is reported and the provider called, unless the
\* report throws, upon which the catch runs and the next block follows.
RECURSIVE RunFrom(_, _, _, _)
RunFrom(sink, res, events, p) ==
  IF ~SinkThrows(sink, p, "running")
    THEN [res |-> res, events |-> Emit(sink, events, p, "running"),
          pc |-> IF p = "openai" THEN "awaitOpenAI" ELSE "awaitOllama"]
  ELSE LET c == CatchBlock(sink, res, Emit(sink, events, p, "running"), p, SinkError) IN
       IF c.next = "throw" THEN [res |-> c.res, events |-> c.events, pc |-> "rejected"]
       ELSE IF p = "openai" THEN RunFrom(sink, c.res, c.events, "ollama")
       ELSE [res |-> c.res, events |-> c.events, pc |-> "returned"]

\* The provider whose call compareAllModels awaits at pc.
Awaited(pc) ==
  IF pc = "awaitOpenAI" THEN "openai" ELSE IF pc = "awaitOllama" THEN "ollama" ELSE "none"

\* compareAllModels has run to the point r: its results, the events and its
\* position are those of r, its promise settles if it returned or threw, and
\* the provider it awaits has been called with the input.
RunTo(r, input) ==
  /\ results' = r.res
  /\ progress' = r.events
  /\ cmpPc' = r.pc
  /\ cmpOutcome' = IF r.pc = "returned" THEN "resolved"
                   ELSE IF r.pc = "rejected" THEN "rejected"
                   ELSE cmpOutcome
  /\ IF Awaited(r.pc) = "none"
       THEN UNCHANGED <<provState, provValue, fetchCount, prompts>>
       ELSE LET q == Awaited(r.pc) IN
            /\ provState' = [provState EXCEPT ![q] = CallProvider(q, apiKey).state]
            /\ provValue' = [provValue EXCEPT ![q] = CallProvider(q, apiKey).value]
            /\ fetchCount' = [fetchCount EXCEPT ![q] = @ + CallProvider(q, apiKey).fetches]
            /\ prompts' = [prompts EXCEPT ![q] = PromptOf(q, apiKey, input)]

\* The handler calls compareAllModels(transcription, (model, status) => ...)
\* (NewVisit.jsx:294, VisitDetails.jsx:800): lines 449-458 run up to the await
\* of callOpenAI.
CompareAllModels(sink) ==
  /\ cmpPc = "idle"
  /\ onProgress' = sink
  /\ \E h \in Handlers, t \in Transcriptions :
       /\ handler' = h
       /\ transcription' = t
       /\ cmpInput' = CompareInput(h, t)
       /\ RunTo(RunFrom(sink, EmptyResults, <<>>, "openai"), CompareInput(h, t))
  /\ UNCHANGED <<consensusInput, analysisVars, provBody, apiKey, consensus, handlerOutcome, sentVars, callVars>>

\* The await of callOpenAI resumes: lines 459-460 or 461-465, then the Ollama
\* block starts and runs up to the await of callOllama (lines 468-470).
ResumeOpenAI ==
  /\ cmpPc = "awaitOpenAI"
  /\ provState["openai"] \in Settled
  /\ LET e == EndBlock(onProgress, results, progress, "openai",
                       provState["openai"], provValue["openai"])
     IN IF e.next = "continue"
          THEN RunTo(RunFrom(onProgress, e.res, e.events, "ollama"), cmpInput)
          ELSE RunTo([res |-> e.res, events |-> e.events, pc |-> "rejected"], cmpInput)
  /\ UNCHANGED <<handler, transcription, cmpInput, consensusInput, analysisVars, provBody, apiKey, onProgress, consensus, handlerOutcome, sentVars, callVars>>

\* The await of callOllama resumes: lines 471-472 or 473-477, then line 479
\* returns the results.
ResumeOllama ==
  /\ cmpPc = "awaitOllama"
  /\ provState["ollama"] \in Settled
  /\ LET e == EndBlock(onProgress, results, progress, "ollama",
                       provState["ollama"], provValue["ollama"])
     IN RunTo([res |-> e.res, events |-> e.events,
               pc |-> IF e.next = "continue" THEN "returned" ELSE "rejected"], cmpInput)
  /\ UNCHANGED <<handler, transcription, cmpInput, consensusInput, analysisVars, provBody, apiKey, onProgress,
                 consensus, handlerOutcome, sentVars, callVars>>

----------------------------------------------------------------------------
(* getConsensusResult, part_001:483-513                                    *)

\* SuccessfulModels without line 487.
SuccessfulModels_OnlyOpenAI(res) ==
  IF res.slot["openai"] # NULL /\ res.errors["openai"] = UNDEFINED
    THEN <<"openai">> ELSE <<>>

\* Lines 484-487.
SuccessfulModels(res) ==
  (IF res.slot["openai"] # NULL /\ res.errors["openai"] = UNDEFINED
     THEN <<"openai">> ELSE <<>>)
  \o
  (IF res.slot["ollama"] # NULL /\ res.errors["ollama"] = UNDEFINED
     THEN <<"ollama">> ELSE <<>>)

Includes(seq, x) == \E i \in 1..Len(seq) : seq[i] = x

\* BaseModel preferring the local provider.
BaseModel_PreferOllama(successfulModels) ==
  IF Includes(successfulModels, "ollama") THEN "ollama" ELSE "openai"

\* Line 495.
BaseModel(successfulModels) ==
  IF Includes(successfulModels, "openai") THEN "openai" ELSE "ollama"

\* ConsensusNote naming only the base provider.
ConsensusNote_BaseOnly(successfulModels) ==
  [count |-> 1, models |-> <<BaseModel(successfulModels)>>]

\* Line 510: `Based on ${successfulModels.length} AI model(s):
\* ${successfulModels.join(', ')}`, kept as the count and the list it prints.
ConsensusNote(successfulModels) ==
  [count |-> Len(successfulModels), models |-> successfulModels]

NoConsensus ==
  [returned |-> "unset", ai_assessment |-> NULL, consensus_note |-> ConsensusNote(<<>>),
   sentiment_analysis |-> "none"]

\* HandlerOutcome without the test of NewVisit.jsx:302: the handler goes on
\* to read consensus.keyword_analysis, which throws on null, and the catch of
\* line 324 alerts.
HandlerOutcome_NoNullTest(returned) ==
  IF returned = "null" THEN "error_alert" ELSE "visit_created"

\* What analyzeTranscription does with the consensus (NewVisit.jsx:302-322):
\* on null it alerts that all models failed and returns, otherwise it reads
\* the fields of the consensus and creates the visit.
HandlerOutcome(returned) ==
  IF returned = "null" THEN "all_failed_alert" ELSE "visit_created"

\* The handler's await of compareAllModels resumes and calls
\* getConsensusResult(results, transcription) (NewVisit.jsx:300,
\* VisitDetails.jsx:806): lines 484-500 run up to the await of
\* analyzeSentiment, or return null at line 490, upon which the handler
\* alerts and returns (NewVisit.jsx:302-306).
\* Lines 489-491: without a successful model getConsensusResult returns null
\* before the local analyses of lines 499-501.
AllModelsFailed_Never(res) == FALSE

AllModelsFailed(res) == Len(SuccessfulModels(res)) = 0

GetConsensusResult ==
  /\ cmpPc = "returned"
  /\ IF AllModelsFailed(results)
       THEN /\ consensus' = [NoConsensus EXCEPT !.returned = "null"]
            /\ handlerOutcome' = HandlerOutcome("null")
            /\ cmpPc' = "done"
            /\ UNCHANGED <<sentVars, callVars>>
       ELSE /\ EnterAnalyzeSentiment(ConsensusCall)
            /\ cmpPc' = "awaitSentiment"
            /\ UNCHANGED <<consensus, handlerOutcome>>
  /\ consensusInput' = transcription
  /\ UNCHANGED <<handler, transcription, cmpInput, prompts, analysisVars, provBody, apiKey, onProgress, provState, provValue, fetchCount, results,
                 progress, cmpOutcome>>

\* The await of analyzeSentiment resumes: lines 501-512 return the bundle and
\* the handler creates the visit from it (NewVisit.jsx:309-322).
ConsensusReturns ==
  /\ cmpPc = "awaitSentiment"
  /\ callPc[ConsensusCall] = "done"
  /\ consensus' =
       [returned |-> "bundle",
        ai_assessment |-> results.slot[BaseModel(SuccessfulModels(results))],
        consensus_note |-> ConsensusNote(SuccessfulModels(results)),
        sentiment_analysis |-> callResult[ConsensusCall]]
  /\ handlerOutcome' = HandlerOutcome("bundle")
  /\ cmpPc' = "done"
  /\ UNCHANGED <<flowVars, analysisVars, provBody, apiKey, onProgress, provState, provValue, fetchCount, results,
                 progress, cmpOutcome, sentVars, callVars>>

----------------------------------------------------------------------------
(* Strings.  A text is a string; its characters are its substrings of      *)
(* length one.                                                             *)

CharAt(s, i) == SubSeq(s, i, i)

UpperCase == "ABCDEFGHIJKLMNOPQRSTUVWXYZ"
LowerCase == "abcdefghijklmnopqrstuvwxyz"
Digits == "0123456789"

IndexIn(alphabet, ch) ==
  IF \E i \in 1..Len(alphabet) : CharAt(alphabet, i) = ch
    THEN CHOOSE i \in 1..Len(alphabet) : CharAt(alphabet, i) = ch
    ELSE 0

ToLowerChar(ch) ==
  LET k == IndexIn(UpperCase, ch) IN IF k = 0 THEN ch ELSE CharAt(LowerCase, k)

\* String.prototype.toLowerCase, character by character (halving the string
\* keeps the evaluation shallow).
RECURSIVE ToLowerCase(_)
ToLowerCase(s) ==
  IF Len(s) = 0 THEN ""
  ELSE IF Len(s) = 1 THEN ToLowerChar(s)
  ELSE LET h == Len(s) \div 2
       IN ToLowerCase(SubSeq(s, 1, h)) \o ToLowerCase(SubSeq(s, h + 1, Len(s)))

\* \s of a regular expression, for the whitespace that occurs in the texts.
IsSpace(ch) == ch \in {" ", "\n", "\t"}

\* \w of a regular expression.
IsWordChar(ch) ==
  \/ IndexIn(LowerCase, ch) # 0
  \/ IndexIn(UpperCase, ch) # 0
  \/ IndexIn(Digits, ch) # 0
  \/ ch = "_"

\* Where the pieces of s.split(/\s+/) begin: at the start of the string and
\* behind every run of whitespace, also behind one that ends the string.
PieceStarts(s) ==
  {1} \cup {i + 1 : i \in {j \in 1..Len(s) :
                              /\ IsSpace(CharAt(s, j))
                              /\ j = Len(s) \/ ~IsSpace(CharAt(s, j + 1))}}

\* The piece beginning at position a: up to the next whitespace or the end,
\* empty when whitespace begins the string or ends it.
PieceAt(s, a) ==
  LET stops == {j \in a..Len(s) : IsSpace(CharAt(s, j))}
      e == IF stops = {} THEN Len(s) + 1
           ELSE CHOOSE j \in stops : \A k \in stops : j <= k
  IN SubSeq(s, a, e - 1)

\* s.split(/\s+/): the empty string is one empty piece.
SplitWhitespace(s) ==
  LET starts == PieceStarts(s)
      nth(k) == CHOOSE a \in starts : Cardinality({b \in starts : b < a}) = k - 1
  IN [k \in 1..Cardinality(starts) |-> PieceAt(s, nth(k))]

\* \b holds between positions i - 1 and i of s.
WordBoundary(s, i) ==
  LET before == i > 1 /\ IsWordChar(CharAt(s, i - 1))
      after  == i <= Len(s) /\ IsWordChar(CharAt(s, i))
  IN before # after

\* new RegExp(`\\b${term}\\b`, 'gi') matches s at position i (s is lower
\* case already, and so are the terms).
MatchesAt(s, term, i) ==
  /\ i + Len(term) - 1 <= Len(s)
  /\ SubSeq(s, i, i + Len(term) - 1) = term
  /\ WordBoundary(s, i)
  /\ WordBoundary(s, i + Len(term))

\* The number of matches s.match(regex) returns for a global regex: the
\* leftmost match, then the leftmost one behind it, and so on.
RECURSIVE CountFrom(_, _, _)
CountFrom(starts, length, from) ==
  LET rest == {i \in starts : i >= from} IN
  IF rest = {} THEN 0
  ELSE LET m == CHOOSE i \in rest : \A j \in rest : i <= j
       IN 1 + CountFrom(rest, length, m + length)

CountMatches(s, term) ==
  CountFrom({i \in 1..Len(s) : MatchesAt(s, term, i)}, Len(term), 1)

\* String.prototype.includes.
StringIncludes(s, piece) ==
  \E i \in 1..(Len(s) + 1) :
    i + Len(piece) - 1 <= Len(s) /\ SubSeq(s, i, i + Len(piece) - 1) = piece

\* Array.prototype.join.
RECURSIVE Join(_, _)
Join(strings, sep) ==
  IF Len(strings) = 0 THEN ""
  ELSE IF Len(strings) = 1 THEN strings[1]
  ELSE strings[1] \o sep \o Join(Tail(strings), sep)

----------------------------------------------------------------------------
(* analyzeKeywords, part_001:41-70 and 116-177                             *)

DIAGNOSTIC_KEYWORDS == <<
  [category |-> "CARDIOVASCULAR",
   phrases |-> <<"chest pain", "shortness of breath", "short of breath", "out of breath">>,
   words |-> <<"chest", "heart", "palpitations", "swollen", "edema", "syncope">>],
  [category |-> "RESPIRATORY",
   phrases |-> <<"catching my breath", "hard to breathe", "trouble breathing">>,
   words |-> <<"cough", "wheezing", "breathless", "sputum", "gasping">>],
  [category |-> "GASTROINTESTINAL",
   phrases |-> <<"stomach pain", "abdominal pain", "feel sick">>,
   words |-> <<"nausea", "vomiting", "diarrhea", "constipation", "bloated">>],
  [category |-> "NEUROLOGICAL",
   phrases |-> <<"bad headache", "head hurts", "feel dizzy">>,
   words |-> <<"headache", "seizure", "numbness", "tingling", "confusion">>],
  [category |-> "MUSCULOSKELETAL",
   phrases |-> <<"joint pain", "muscle pain", "back pain", "knee pain">>,
   words |-> <<"joint", "muscle", "pain", "ache", "sore", "stiff", "weak">>],
  [category |-> "CONSTITUTIONAL",
   phrases |-> <<"feel tired", "no energy", "weight loss">>,
   words |-> <<"fever", "chills", "fatigue", "exhausted", "sweats">>],
  [category |-> "PSYCHIATRIC",
   phrases |-> <<"feel anxious", "feel depressed", "can't sleep">>,
   words |-> <<"anxiety", "depression", "stress", "worried", "mood">>] >>

\* diagnosticKeywords is an object whose keys keep the order in which they
\* were first set: a sequence of entries [term, count, category].
HasKey(dk, term) == \E i \in 1..Len(dk) : dk[i].term = term

KeyIndex(dk, term) == CHOOSE i \in 1..Len(dk) : dk[i].term = term

Keys(dk) == [i \in 1..Len(dk) |-> dk[i].term]

\* diagnosticKeywords[term] = { count, category }
SetKey(dk, term, count, category) ==
  LET entry == [term |-> term, count |-> count, category |-> category] IN
  IF HasKey(dk, term)
    THEN [dk EXCEPT ![KeyIndex(dk, term)] = entry]
    ELSE Append(dk, entry)

\* Lines 124-133 for the phrases of category ci from phrase pi on.
RECURSIVE CategoryPhrases(_, _, _, _)
CategoryPhrases(lowerText, ci, pi, dk) ==
  IF pi > Len(DIAGNOSTIC_KEYWORDS[ci].phrases) THEN dk
  ELSE LET phrase == DIAGNOSTIC_KEYWORDS[ci].phrases[pi]
           n == CountMatches(lowerText, phrase)
       IN IF n > 0
            THEN CategoryPhrases(lowerText, ci, pi + 1,
                                 SetKey(dk, phrase, n, DIAGNOSTIC_KEYWORDS[ci].category))
            ELSE CategoryPhrases(lowerText, ci, pi + 1, dk)

\* Lines 123-134 for the categories lo..hi, in their order: the match map
\* after the first half, computed first, is the one the second half starts
\* from (an empty one is handed on as the empty map).
RECURSIVE PhrasePass(_, _, _, _)
PhrasePass(lowerText, lo, hi, dk) ==
  IF lo > hi THEN dk
  ELSE IF lo = hi THEN CategoryPhrases(lowerText, lo, 1, dk)
  ELSE LET mid == (lo + hi) \div 2
           firstHalf == PhrasePass(lowerText, lo, mid, dk)
       IN IF Len(firstHalf) = 0
            THEN PhrasePass(lowerText, mid + 1, hi, <<>>)
            ELSE PhrasePass(lowerText, mid + 1, hi, firstHalf)

\* SkipWord without the test of line 141.
SkipWord_Never(phrasesFound, word) == FALSE

\* SkipWord skipping a token only when it is a whole phrase that was found.
SkipWord_WholePhrase(phrasesFound, word) == phrasesFound = word

\* Line 141: if (phrasesFound.includes(word)) return;
SkipWord(phrasesFound, word) == StringIncludes(phrasesFound, word)

\* Lines 144-154 for one token: every category that lists the token counts
\* it, and the first of them names the entry it creates.
CountWord(word, dk) ==
  LET listing == {ci \in 1..Len(DIAGNOSTIC_KEYWORDS) :
                    Includes(DIAGNOSTIC_KEYWORDS[ci].words, word)}
      first == CHOOSE ci \in listing : \A cj \in listing : ci <= cj
      dk0 == IF HasKey(dk, word)
               THEN dk
               ELSE SetKey(dk, word, 0, DIAGNOSTIC_KEYWORDS[first].category)
  IN IF listing = {} THEN dk
     ELSE [dk0 EXCEPT ![KeyIndex(dk0, word)].count = @ + Cardinality(listing)]

\* Lines 139-155 for the tokens lo..hi, in their order: the match map after
\* the first half, computed first, is the one the second half starts from
\* (an empty one is handed on as the empty map).
RECURSIVE WordPass(_, _, _, _, _)
WordPass(words, lo, hi, phrasesFound, dk) ==
  IF lo > hi THEN dk
  ELSE IF lo = hi
    THEN IF SkipWord(phrasesFound, words[lo]) THEN dk ELSE CountWord(words[lo], dk)
  ELSE LET mid == (lo + hi) \div 2
           firstHalf == WordPass(words, lo, mid, phrasesFound, dk)
       IN IF Len(firstHalf) = 0
            THEN WordPass(words, mid + 1, hi, phrasesFound, <<>>)
            ELSE WordPass(words, mid + 1, hi, phrasesFound, firstHalf)

\* Line 158.
RECURSIVE SumCounts(_)
SumCounts(dk) == IF Len(dk) = 0 THEN 0 ELSE dk[1].count + SumCounts(Tail(dk))

\* a / b rounded to the nearest integer, halves upwards (a >= 0, b > 0).
RoundDiv(a, b) == (2 * a + b) \div (2 * b)

\* KeywordPercentage with the quotient turned over.
KeywordPercentage_Inverted(keywordCount, totalWords) ==
  IF keywordCount > 0 THEN RoundDiv(totalWords * 1000, keywordCount) ELSE 0

\* Lines 159 and 174, in tenths of a percent:
\* parseFloat(((keywordCount / totalWords) * 100).toFixed(1)).
KeywordPercentage(keywordCount, totalWords) ==
  IF totalWords > 0 THEN RoundDiv(keywordCount * 1000, totalWords) ELSE 0

\* InsertByCount putting an entry before those of the same count.
InsertByCount_BeforeEqual(sorted, entry) ==
  LET k == Cardinality({i \in 1..Len(sorted) : sorted[i].count > entry.count})
  IN SubSeq(sorted, 1, k) \o <<entry>> \o SubSeq(sorted, k + 1, Len(sorted))

\* One step of the stable sort of line 163, (a, b) => b.count - a.count:
\* the entry goes behind every entry whose count is not smaller.
InsertByCount(sorted, entry) ==
  LET k == Cardinality({i \in 1..Len(sorted) : sorted[i].count >= entry.count})
  IN SubSeq(sorted, 1, k) \o <<entry>> \o SubSeq(sorted, k + 1, Len(sorted))

RECURSIVE SortByCount(_, _)
SortByCount(dk, sorted) ==
  IF Len(dk) = 0 THEN sorted
  ELSE SortByCount(Tail(dk), InsertByCount(sorted, dk[1]))

\* Lines 162-169.
TopKeywords(dk) ==
  LET sorted == SortByCount(dk, <<>>)
  IN SubSeq(sorted, 1, IF Len(sorted) < 10 THEN Len(sorted) ELSE 10)

NoKeywordAnalysis ==
  [returned |-> FALSE, total_words |-> 0, diagnostic_keywords |-> <<>>,
   keyword_percentage |-> 0, top_keywords |-> <<>>]

AnalyzeKeywords(t) ==
  LET lowerText == ToLowerCase(t)
      words == SplitWhitespace(lowerText)
      totalWords == Len(words)
      phrases == PhrasePass(lowerText, 1, Len(DIAGNOSTIC_KEYWORDS), <<>>)
      phrasesFound == ToLowerCase(Join(Keys(phrases), " "))
      \* the phrase pass is complete before the word pass starts; without
      \* a phrase, phrasesFound is the empty string
      diagnosticKeywords ==
        IF Len(phrases) = 0
          THEN WordPass(words, 1, Len(words), "", <<>>)
          ELSE WordPass(words, 1, Len(words), phrasesFound, phrases)
  IN [returned |-> TRUE,
      total_words |-> totalWords,
      diagnostic_keywords |-> diagnosticKeywords,
      keyword_percentage |-> KeywordPercentage(SumCounts(diagnosticKeywords), totalWords),
      top_keywords |-> TopKeywords(diagnosticKeywords)]

\* analyzeKeywords(text) is called and returns.
AnalyzeKeywordsCall ==
  /\ ~keywordAnalysis.returned
  /\ keywordAnalysis' = AnalyzeKeywords(text)
  /\ UNCHANGED <<text, scoreVars, semVars, serviceVars, appVars>>

----------------------------------------------------------------------------
(* analyzeSemantics, part_001:322-353                                      *)

\* Lines 328-333: the themes in the order of their tests, each with the keys
\* of the match map that its test looks for.
THEME_RULES == <<
  [theme |-> "widespread pain", triggers |-> <<"pain", "ache", "sore">>],
  [theme |-> "fatigue", triggers |-> <<"fatigue">>],
  [theme |-> "nausea", triggers |-> <<"nausea">>],
  [theme |-> "sleep disturbances", triggers |-> <<"sleep", "insomnia">>],
  [theme |-> "gastrointestinal issues", triggers |-> <<"stomach", "bloated">>],
  [theme |-> "dizziness", triggers |-> <<"dizzy", "dizziness">>] >>

\* Lines 327-333: themes.push for every rule one of whose triggers is a key.
KeyThemes(topWords) ==
  LET hit == SelectSeq(THEME_RULES,
                       LAMBDA r : \E i \in 1..Len(r.triggers) : Includes(topWords, r.triggers[i]))
  IN [i \in 1..Len(hit) |-> hit[i].theme]

\* The number of matches of /\b(w1|w2|...)\b/g in s.
RECURSIVE CountAnyOf(_, _)
CountAnyOf(s, alternatives) ==
  IF Len(alternatives) = 0 THEN 0
  ELSE CountMatches(s, alternatives[1]) + CountAnyOf(s, Tail(alternatives))

NoSemanticAnalysis ==
  [returned |-> FALSE, key_themes |-> <<>>, symptom_severity |-> "none",
   functional_impact |-> "none", temporal_patterns |-> "none"]

AnalyzeSemantics(t) ==
  LET topWords == Keys(AnalyzeKeywords(t).diagnostic_keywords)
      lowerText == ToLowerCase(t)
      severeWords == CountAnyOf(lowerText, <<"severe", "extreme", "terrible", "unbearable">>)
      functionalWords == CountAnyOf(lowerText, <<"can't", "unable", "difficult", "hard">>)
      chronicWords == CountAnyOf(lowerText, <<"constantly", "always", "chronic", "ongoing">>)
  IN [returned |-> TRUE,
      key_themes |-> KeyThemes(topWords),
      symptom_severity |-> IF severeWords > 1 THEN "severe" ELSE "moderate",
      functional_impact |-> IF functionalWords > 1 THEN "severe" ELSE "moderate",
      temporal_patterns |-> IF chronicWords > 0 THEN "chronic" ELSE "acute"]

\* analyzeSemantics(t) is called and returns.
AnalyzeSemanticsCall(t) ==
  /\ ~semanticAnalysis.returned
  /\ text' = t
  /\ semanticAnalysis' = AnalyzeSemantics(t)
  /\ UNCHANGED <<keywordAnalysis, scoreVars, serviceVars, appVars>>

----------------------------------------------------------------------------
(* The sentiment result, part_001:189-216 and 259-273.  Scores are in      *)
(* hundredths, as toFixed(2) leaves them; the classifier's confidence is   *)
(* in thousandths.                                                         *)

ConfidenceScale == 1000

\* a / b rounded to the nearest integer as toFixed rounds: the sign apart,
\* halves away from zero (b > 0).
SignedRoundDiv(a, b) == IF a >= 0 THEN RoundDiv(a, b) ELSE 0 - RoundDiv(0 - a, b)

\* Math.max
Max(a, b) == IF a >= b THEN a ELSE b

\* FallbackScore dividing by the difference of the counts.
FallbackScore_ByDifference(positiveCount, negativeCount) ==
  SignedRoundDiv(100 * (positiveCount - negativeCount), Max(positiveCount - negativeCount, 1))

\* Lines 259 and 269:
\* parseFloat(((positiveCount - negativeCount) / Math.max(positiveCount + negativeCount, 1)).toFixed(2))
FallbackScore(positiveCount, negativeCount) ==
  SignedRoundDiv(100 * (positiveCount - negativeCount), Max(positiveCount + negativeCount, 1))

\* FallbackSentiment with the thresholds included: >= 0.2, <= -0.2.
FallbackSentiment_Inclusive(positiveCount, negativeCount) ==
  LET num == positiveCount - negativeCount
      den == Max(positiveCount + negativeCount, 1)
  IN IF 5 * num >= den THEN "positive"
     ELSE IF 5 * num <= 0 - den THEN "negative"
     ELSE "neutral"

\* Line 260, on the unrounded quotient: sentimentScore > 0.2, < -0.2.
FallbackSentiment(positiveCount, negativeCount) ==
  LET num == positiveCount - negativeCount
      den == Max(positiveCount + negativeCount, 1)
  IN IF 5 * num > den THEN "positive"
     ELSE IF 5 * num < 0 - den THEN "negative"
     ELSE "neutral"

\* Line 261.
FallbackDistress(distressCount) ==
  IF distressCount > 2 THEN "high" ELSE IF distressCount > 0 THEN "medium" ELSE "low"

\* Lines 259-273.
FallbackResult(in) ==
  [returned |-> TRUE,
   analysis_type |-> "rule_based_fallback",
   overall_sentiment |-> FallbackSentiment(in.positiveCount, in.negativeCount),
   sentiment_score |-> FallbackScore(in.positiveCount, in.negativeCount),
   distress_level |-> FallbackDistress(in.distressCount)]

\* Lines 193 and 208: parseFloat((label === 'positive' ? confidence : -confidence).toFixed(2))
PrimaryScore(label, confidence) ==
  SignedRoundDiv(100 * (IF label = "positive" THEN confidence ELSE 0 - confidence),
                 ConfidenceScale)

\* Lines 196-200: confidence > 0.9, > 0.7.
PrimaryDistress(label, confidence) ==
  IF label = "negative" /\ 10 * confidence > 9 * ConfidenceScale THEN "high"
  ELSE IF label = "negative" /\ 10 * confidence > 7 * ConfidenceScale THEN "medium"
  ELSE "low"

\* Lines 189-216.
PrimaryResult(in) ==
  [returned |-> TRUE,
   analysis_type |-> "transformers_bert",
   overall_sentiment |-> in.label,
   sentiment_score |-> PrimaryScore(in.label, in.confidence),
   distress_level |-> PrimaryDistress(in.label, in.confidence)]

NoSentimentInput ==
  [positiveCount |-> 0, negativeCount |-> 0, distressCount |-> 0,
   label |-> "positive", confidence |-> 0]

NoSentimentOutput ==
  [returned |-> FALSE, analysis_type |-> "none", overall_sentiment |-> "none",
   sentiment_score |-> 0, distress_level |-> "none"]

\* The classifier answered: analyzeSentiment returns the result of lines
\* 205-216.
ScorePrimary ==
  /\ ~sentimentOutput.returned
  /\ sentimentOutput' = PrimaryResult(sentimentInput)
  /\ UNCHANGED <<sentimentInput, kwVars, semVars, serviceVars, appVars>>

\* The classifier failed: analyzeSentiment returns
\* analyzeSentimentFallback(text).
ScoreFallback ==
  /\ ~sentimentOutput.returned
  /\ sentimentOutput' = FallbackResult(sentimentInput)
  /\ UNCHANGED <<sentimentInput, kwVars, semVars, serviceVars, appVars>>

----------------------------------------------------------------------------
(* The patient and visit store (part_002:155-290) and the Patients page's   *)
(* deletePatientMutation (Patients.jsx:58-73)                              *)

PatientIds == {"p1", "p2"}

MaxVisits == 2

VisitCalls == 1..MaxVisits

\* createVisitMutation.mutate (NewVisit.jsx:311) calls Visit.create for the
\* patient selected on the page; the call waits for its timer (line 256).
VisitCreate(k, pt) ==
  /\ createCalls[k].state = "idle"
  /\ pt \in storePatients
  /\ createCalls' = [createCalls EXCEPT ![k] = [state |-> "pending", patient_id |-> pt]]
  /\ UNCHANGED <<storePatients, storeVisits, visitsQuery, deletePc, deleteTarget,
                 pendingDeletes, serviceVars, pureVars, tsVars>>

\* The timer of Visit.create fires: lines 257-265 push the visit.
VisitCreateCompletes(k) ==
  /\ createCalls[k].state = "pending"
  /\ storeVisits' = storeVisits \cup {[id |-> k, patient_id |-> createCalls[k].patient_id]}
  /\ createCalls' = [createCalls EXCEPT ![k].state = "done"]
  /\ UNCHANGED <<storePatients, visitsQuery, deletePc, deleteTarget, pendingDeletes,
                 serviceVars, pureVars, tsVars>>

\* The ['visits'] query of the Patients page gets its data: Visit.list
\* returns the visits stored at that time (Patients.jsx:36-39, part_002:232-239).
RefetchVisits ==
  /\ visitsQuery # storeVisits
  /\ visitsQuery' = storeVisits
  /\ UNCHANGED <<storePatients, storeVisits, createCalls, deletePc, deleteTarget,
                 pendingDeletes, serviceVars, pureVars, tsVars>>

\* deletePatientMutation.mutate(patientId): lines 61-64 pick the patient's
\* visits from the page's copy and call Visit.delete for each of them.
DeletePatient(pt) ==
  /\ deletePc = "idle"
  /\ pt \in storePatients
  /\ deleteTarget' = pt
  /\ pendingDeletes' = {v.id : v \in {w \in visitsQuery : w.patient_id = pt}}
  /\ deletePc' = "deletingVisits"
  /\ UNCHANGED <<storePatients, storeVisits, visitsQuery, createCalls, serviceVars, pureVars, tsVars>>

\* The timer of one Visit.delete fires: lines 283-288 drop the visit.
VisitDeleteCompletes(id) ==
  /\ deletePc = "deletingVisits"
  /\ id \in pendingDeletes
  /\ storeVisits' = {v \in storeVisits : v.id # id}
  /\ pendingDeletes' = pendingDeletes \ {id}
  /\ UNCHANGED <<storePatients, visitsQuery, createCalls, deletePc, deleteTarget,
                 serviceVars, pureVars, tsVars>>

\* Promise.all has resolved: line 66 calls Patient.delete, which waits for
\* its timer.
PatientDeleteCall ==
  /\ deletePc = "deletingVisits"
  /\ pendingDeletes = {}
  /\ deletePc' = "deletingPatient"
  /\ UNCHANGED <<storePatients, storeVisits, visitsQuery, createCalls, deleteTarget,
                 pendingDeletes, serviceVars, pureVars, tsVars>>

\* The timer of Patient.delete fires: lines 225-228 drop the patient, and
\* the mutation has completed.
PatientDeleteCompletes ==
  /\ deletePc = "deletingPatient"
  /\ storePatients' = storePatients \ {deleteTarget}
  /\ deletePc' = "done"
  /\ UNCHANGED <<storeVisits, visitsQuery, createCalls, deleteTarget, pendingDeletes,
                 serviceVars, pureVars, tsVars>>

StoreInit ==
  /\ storePatients = PatientIds
  /\ storeVisits = {}
  /\ visitsQuery = {}
  /\ createCalls = [k \in VisitCalls |-> [state |-> "idle", patient_id |-> "none"]]
  /\ deletePc = "idle"
  /\ deleteTarget = "none"
  /\ pendingDeletes = {}

StoreNext ==
  \/ \E k \in VisitCalls, pt \in PatientIds : VisitCreate(k, pt)
  \/ \E k \in VisitCalls : VisitCreateCompletes(k)
  \/ RefetchVisits
  \/ \E pt \in PatientIds : DeletePatient(pt)
  \/ \E id \in VisitCalls : VisitDeleteCompletes(id)
  \/ PatientDeleteCall
  \/ PatientDeleteCompletes

----------------------------------------------------------------------------
(* TranscriptionService, part_001:531-709, and the visit page's use of it  *)
(* (NewVisit.jsx:86-100, 183-213, 247-278)                                 *)

MaxSockets == 2

MaxStarts == 2

MaxUpdates == 1

SocketIds == 1..MaxSockets

StartCalls == 1..MaxStarts

UpdateIds == 1..MaxUpdates

\* The page registers one listener (NewVisit.jsx:185).
ListenerIds == {"page"}

\* Line 543: this.socket && this.socket.connected
Connected == socket # 0 /\ sockState[socket] = "connected"

\* The sockets that io() has made and nobody has disconnected; their four
\* handlers of lines 556-572 stay attached.
LiveSockets == {i \in SocketIds : sockState[i] \in {"connecting", "connected"}}

NextSocket == Cardinality({i \in SocketIds : sockState[i] # "absent"}) + 1

\* Lines 547-553: this.socket = io(...), inside a new promise.
CreateSocket ==
  /\ NextSocket \in SocketIds
  /\ socket' = NextSocket
  /\ sockState' = [sockState EXCEPT ![NextSocket] = "connecting"]
  /\ connPromise' = [connPromise EXCEPT ![NextSocket] = "pending"]

\* connect() as the page's preconnect effect calls it (NewVisit.jsx:86-88);
\* with a connected socket it returns a resolved promise and changes nothing.
Connect ==
  /\ ~Connected
  /\ CreateSocket
  /\ UNCHANGED <<sessionId, isRecording, listeners, startPc, startAwait,
                 startRequests, stopPc, updatesEmitted, inbox, delivered,
                 serviceVars, pureVars, storeVars>>

\* The socket's 'connect' event (lines 556-559): resolve().
SocketConnects(i) ==
  /\ sockState[i] = "connecting"
  /\ sockState' = [sockState EXCEPT ![i] = "connected"]
  /\ connPromise' = [connPromise EXCEPT ![i] = IF @ = "pending" THEN "resolved" ELSE @]
  /\ UNCHANGED <<socket, sessionId, isRecording, listeners, startPc, startAwait,
                 startRequests, stopPc, updatesEmitted, inbox, delivered,
                 serviceVars, pureVars, storeVars>>

\* The socket's 'connect_error' event (lines 561-564): reject(error); the
\* socket goes on trying (reconnection: true, line 550).
SocketConnectError(i) ==
  /\ sockState[i] = "connecting"
  /\ connPromise[i] = "pending"
  /\ connPromise' = [connPromise EXCEPT ![i] = "rejected"]
  /\ UNCHANGED <<socket, sessionId, isRecording, listeners, sockState, startPc,
                 startAwait, startRequests, stopPc, updatesEmitted, inbox,
                 delivered, serviceVars, pureVars, storeVars>>

\* start() is called (lines 579-584): the isRecording test, then connect()
\* up to its await.  The calls are numbered in the order they are made.
Start(k) ==
  /\ startPc[k] = "idle"
  /\ \A j \in StartCalls : j < k => startPc[j] # "idle"
  /\ IF isRecording
       THEN /\ startPc' = [startPc EXCEPT ![k] = "already_running"]
            /\ UNCHANGED <<socket, sockState, connPromise, startAwait>>
       ELSE /\ startPc' = [startPc EXCEPT ![k] = "awaitConnect"]
            /\ IF Connected
                 THEN /\ startAwait' = [startAwait EXCEPT ![k] = 0]
                      /\ UNCHANGED <<socket, sockState, connPromise>>
                 ELSE /\ CreateSocket
                      /\ startAwait' = [startAwait EXCEPT ![k] = NextSocket]
  /\ UNCHANGED <<sessionId, isRecording, listeners, startRequests, stopPc,
                 updatesEmitted, inbox, delivered, serviceVars, pureVars, storeVars>>

\* What the await of line 584 finds.
AwaitedConnect(k) ==
  IF startAwait[k] = 0 THEN "resolved" ELSE connPromise[startAwait[k]]

\* The await of line 584 resumes: a rejection leaves start(); otherwise lines
\* 586-595 set sessionId and isRecording and send the start request.
StartResumes(k) ==
  /\ startPc[k] = "awaitConnect"
  /\ AwaitedConnect(k) # "pending"
  /\ IF AwaitedConnect(k) = "rejected"
       THEN /\ startPc' = [startPc EXCEPT ![k] = "failed"]
            /\ UNCHANGED <<sessionId, isRecording, startRequests>>
       ELSE /\ sessionId' = k
            /\ isRecording' = TRUE
            /\ startRequests' = Append(startRequests, k)
            /\ startPc' = [startPc EXCEPT ![k] = "awaitFetch"]
  /\ UNCHANGED <<socket, listeners, sockState, connPromise, startAwait, stopPc,
                 updatesEmitted, inbox, delivered, serviceVars, pureVars, storeVars>>

\* The start request is answered (lines 597-609): data is returned, or the
\* catch clears isRecording and rethrows.
StartResponds(k, ok) ==
  /\ startPc[k] = "awaitFetch"
  /\ startPc' = [startPc EXCEPT ![k] = IF ok THEN "done" ELSE "failed"]
  /\ isRecording' = IF ok THEN isRecording ELSE FALSE
  /\ UNCHANGED <<socket, sessionId, listeners, sockState, connPromise, startAwait,
                 startRequests, stopPc, updatesEmitted, inbox, delivered,
                 serviceVars, pureVars, storeVars>>

\* stop() is called (lines 615-629); without a recording it returns null.
Stop ==
  /\ stopPc = "idle"
  /\ isRecording
  /\ sessionId # 0
  /\ stopPc' = "awaitFetch"
  /\ UNCHANGED <<socket, sessionId, isRecording, listeners, sockState, connPromise,
                 startPc, startAwait, startRequests, updatesEmitted, inbox,
                 delivered, serviceVars, pureVars, storeVars>>

\* The stop request is answered (lines 631-651): isRecording is cleared on
\* either path.  A server that stopped the session emits
\* transcription_complete to its clients.
StopResponds(ok) ==
  /\ stopPc = "awaitFetch"
  /\ stopPc' = "idle"
  /\ isRecording' = FALSE
  /\ inbox' = [i \in SocketIds |->
                 IF ok /\ sockState[i] = "connected" THEN Append(inbox[i], 0) ELSE inbox[i]]
  /\ UNCHANGED <<socket, sessionId, listeners, sockState, connPromise, startPc,
                 startAwait, startRequests, updatesEmitted, delivered,
                 serviceVars, pureVars, storeVars>>

\* addListener (lines 676-679), called by the page's effect once
\* isTranscribing is set, that is after a start() returned (NewVisit.jsx:184-185, 251-252).
AddListener(l) ==
  /\ l \notin listeners
  /\ \E k \in StartCalls : startPc[k] = "done"
  /\ listeners' = listeners \cup {l}
  /\ UNCHANGED <<socket, sessionId, isRecording, sockState, connPromise, startPc,
                 startAwait, startRequests, stopPc, updatesEmitted, inbox,
                 delivered, serviceVars, pureVars, storeVars>>

\* The function addListener returned (line 678), called by the effect's
\* cleanup (NewVisit.jsx:207-212).
RemoveListener(l) ==
  /\ l \in listeners
  /\ listeners' = listeners \ {l}
  /\ UNCHANGED <<socket, sessionId, isRecording, sockState, connPromise, startPc,
                 startAwait, startRequests, stopPc, updatesEmitted, inbox,
                 delivered, serviceVars, pureVars, storeVars>>

\* The server emits transcription_update for a started session; the event
\* reaches every socket connected to it (the sockets carry no session).
ServerUpdate ==
  /\ updatesEmitted < MaxUpdates
  /\ \E k \in StartCalls : startPc[k] = "done"
  /\ updatesEmitted' = updatesEmitted + 1
  /\ inbox' = [i \in SocketIds |->
                 IF sockState[i] = "connected"
                   THEN Append(inbox[i], updatesEmitted + 1) ELSE inbox[i]]
  /\ UNCHANGED <<socket, sessionId, isRecording, listeners, sockState, connPromise,
                 startPc, startAwait, startRequests, stopPc, delivered,
                 serviceVars, pureVars, storeVars>>

\* Lines 684-692: notifyListeners calls every listener once.
NotifyListeners(u) ==
  [l \in ListenerIds |->
     IF l \in listeners THEN [delivered[l] EXCEPT ![u] = @ + 1] ELSE delivered[l]]

\* Socket i's handler of the event at the head of its inbox: lines 565-567
\* for transcription_update, lines 569-572 for transcription_complete (0).
SocketReceives(i) ==
  /\ sockState[i] = "connected"
  /\ inbox[i] # <<>>
  /\ inbox' = [inbox EXCEPT ![i] = Tail(@)]
  /\ IF Head(inbox[i]) = 0
       THEN /\ isRecording' = FALSE
            /\ UNCHANGED delivered
       ELSE /\ delivered' = NotifyListeners(Head(inbox[i]))
            /\ UNCHANGED isRecording
  /\ UNCHANGED <<socket, sessionId, listeners, sockState, connPromise, startPc,
                 startAwait, startRequests, stopPc, updatesEmitted,
                 serviceVars, pureVars, storeVars>>

\* disconnect() (lines 697-705), called when the page unmounts
\* (NewVisit.jsx:99): only this.socket is disconnected.
Disconnect ==
  /\ socket # 0
  /\ sockState' = [sockState EXCEPT ![socket] = "closed"]
  /\ socket' = 0
  /\ isRecording' = FALSE
  /\ sessionId' = 0
  /\ listeners' = {}
  /\ UNCHANGED <<connPromise, startPc, startAwait, startRequests, stopPc,
                 updatesEmitted, inbox, delivered, serviceVars, pureVars, storeVars>>

\* Lines 532-537: the constructor.
TranscriptionInit ==
  /\ socket = 0
  /\ sessionId = 0
  /\ isRecording = FALSE
  /\ listeners = {}
  /\ sockState = [i \in SocketIds |-> "absent"]
  /\ connPromise = [i \in SocketIds |-> "none"]
  /\ startPc = [k \in StartCalls |-> "idle"]
  /\ startAwait = [k \in StartCalls |-> 0]
  /\ startRequests = <<>>
  /\ stopPc = "idle"
  /\ updatesEmitted = 0
  /\ inbox = [i \in SocketIds |-> <<>>]
  /\ delivered = [l \in ListenerIds |-> [u \in UpdateIds |-> 0]]

----------------------------------------------------------------------------
\* The program before any call: the module state of part_001:7-9, no
\* provider called, nothing recorded.
ProgramInit ==
  /\ sentimentClassifier = 0
  /\ isInitializing = FALSE
  /\ initializationPromise = 0
  /\ promiseState = [c \in Calls |-> "none"]
  /\ pipelineInFlight = {}
  /\ callKind = [c \in Calls |-> "none"]
  /\ callPc = [c \in Calls |-> "idle"]
  /\ callAwait = [c \in Calls |-> 0]
  /\ callClassifier = [c \in Calls |-> 0]
  /\ callThrown = [c \in Calls |-> "none"]
  /\ callResult = [c \in Calls |-> "none"]
  /\ apiKey \in BOOLEAN
  /\ onProgress = "absent"
  /\ cmpPc = "idle"
  /\ provState = [p \in ProviderIds |-> "notStarted"]
  /\ provValue = [p \in ProviderIds |-> "none"]
  /\ provBody = [p \in ProviderIds |-> "none"]
  /\ fetchCount = [p \in ProviderIds |-> 0]
  /\ results = EmptyResults
  /\ progress = <<>>
  /\ cmpOutcome = "none"
  /\ consensus = NoConsensus
  /\ handlerOutcome = "none"
  /\ handler = "none"
  /\ transcription = ""
  /\ cmpInput = NoInput
  /\ prompts = [p \in ProviderIds |-> ""]
  /\ consensusInput = ""
  /\ StoreInit
  /\ TranscriptionInit

Init ==
  /\ ProgramInit
  /\ text = ""
  /\ keywordAnalysis = NoKeywordAnalysis
  /\ semanticAnalysis = NoSemanticAnalysis
  /\ sentimentInput = NoSentimentInput
  /\ sentimentOutput = NoSentimentOutput

\* The steps of the sentiment classifier's load and of the invocations
\* waiting for it.
SentimentSteps ==
  \/ \E p \in Calls : PipelineResolves(p)
  \/ \E p \in Calls : PipelineRejects(p)
  \/ \E c \in Calls : ResumeInit(c)
  \/ \E c \in Calls : ClassifierReturns(c)
  \/ \E c \in Calls : ClassifierThrows(c)

\* The sentiment classifier under arbitrary callers: any invocation is a call
\* of analyzeSentiment or of preloadSentimentModel, at any time.
SentimentNext ==
  \/ \E c \in Calls : AnalyzeSentiment(c)
  \/ \E c \in Calls : PreloadSentimentModel(c)
  \/ SentimentSteps

SentimentSpec == Init /\ [][SentimentNext]_vars

\* The application: the App effect preloads the model once, and the visit
\* page's analyzeTranscription runs compareAllModels and getConsensusResult,
\* which calls analyzeSentiment.
Next ==
  \/ PreloadSentimentModel(PreloadCall)
  \/ SentimentSteps
  \/ \E sink \in SinkKinds : CompareAllModels(sink)
  \/ \E p \in ProviderIds, reply \in FetchReplies : FetchSettles(p, reply)
  \/ \E p \in ProviderIds, body \in Bodies : BodySettles(p, body)
  \/ ResumeOpenAI
  \/ ResumeOllama
  \/ GetConsensusResult
  \/ ConsensusReturns

Spec == Init /\ [][Next]_vars

\* The event loop runs every continuation that is ready, so the resumptions
\* of awaits are weakly fair; the network and the model (fetch, the response
\* body, pipeline, the classifier) answer when they answer, if at all.
FairSpec ==
  /\ Spec
  /\ WF_vars(ResumeOpenAI)
  /\ WF_vars(ResumeOllama)
  /\ WF_vars(GetConsensusResult)
  /\ WF_vars(ConsensusReturns)
  /\ \A c \in Calls : WF_vars(ResumeInit(c))

----------------------------------------------------------------------------
(* analyzeKeywords on bounded texts                                        *)

MaxLexemes == 4

\* The pieces the texts are put together from: separators, words of the
\* taxonomy in either case, the words of a phrase and a whole phrase.
Lexemes == {" ", ",", "chest", "pain", "Ache", "bad headache"}

RECURSIVE TextsOfLength(_)
TextsOfLength(n) ==
  IF n = 0 THEN {""}
  ELSE {t \o l : t \in TextsOfLength(n - 1), l \in Lexemes}

\* Two phrases and a word of the first phrase standing alone.
BreathText == "chest pain and shortness of breath, severe pain"

\* Thirteen different terms, some of them equally often, between blanks,
\* tabs and line ends.
ManyKeywordsText ==
  "Fever chills cough cough cough nausea nausea\tvomiting sore stiff weak joint muscle\nfatigue  stress fever no energy"

Texts == UNION {TextsOfLength(n) : n \in 0..MaxLexemes} \cup {BreathText, ManyKeywordsText}

KeywordInit ==
  /\ ProgramInit
  /\ text \in Texts
  /\ keywordAnalysis = NoKeywordAnalysis
  /\ semanticAnalysis = NoSemanticAnalysis
  /\ sentimentInput = NoSentimentInput
  /\ sentimentOutput = NoSentimentOutput

KeywordNext == AnalyzeKeywordsCall

KeywordSpec == KeywordInit /\ [][KeywordNext]_vars

\* Texts that speak of what the themes of analyzeSemantics are about.
ThemeTexts ==
  {"fatigue and nausea", "I can't sleep, insomnia every night", "sleep", "insomnia",
   "stomach pain and bloated", "stomach", "I feel dizzy", "dizzy", "dizziness",
   "constantly sore, severe and terrible, hard and difficult"}

SemanticTexts == Texts \cup ThemeTexts

SemanticNext == \E t \in SemanticTexts : AnalyzeSemanticsCall(t)

SemanticSpec == Init /\ [][SemanticNext]_vars

----------------------------------------------------------------------------
(* The transcription service under the page's and the server's events     *)

TranscriptionNext ==
  \/ Connect
  \/ \E i \in SocketIds : SocketConnects(i)
  \/ \E i \in SocketIds : SocketConnectError(i)
  \/ \E k \in StartCalls : Start(k)
  \/ \E k \in StartCalls : StartResumes(k)
  \/ \E k \in StartCalls, ok \in BOOLEAN : StartResponds(k, ok)
  \/ Stop
  \/ \E ok \in BOOLEAN : StopResponds(ok)
  \/ \E l \in ListenerIds : AddListener(l)
  \/ \E l \in ListenerIds : RemoveListener(l)
  \/ ServerUpdate
  \/ \E i \in SocketIds : SocketReceives(i)
  \/ Disconnect

TranscriptionSpec == Init /\ [][TranscriptionNext]_vars

----------------------------------------------------------------------------
(* The sentiment result on bounded inputs                                  *)

MaxCount == 4

\* Confidences of the classifier, in thousandths: the ends of [0, 1], the
\* thresholds of the distress level and their neighbours, values rounded up
\* and down.
Confidences == {0, 4, 6, 333, 500, 700, 701, 900, 901, 994, 996, 1000}

Labels == {"positive", "negative"}

SentimentInputs ==
  [positiveCount : 0..MaxCount, negativeCount : 0..MaxCount, distressCount : 0..MaxCount,
   label : Labels, confidence : Confidences]

ScoreInit ==
  /\ ProgramInit
  /\ text = ""
  /\ keywordAnalysis = NoKeywordAnalysis
  /\ semanticAnalysis = NoSemanticAnalysis
  /\ sentimentInput \in SentimentInputs
  /\ sentimentOutput = NoSentimentOutput

ScoreNext ==
  \/ ScorePrimary
  \/ ScoreFallback

ScoreSpec == ScoreInit /\ [][ScoreNext]_vars

\* compareAllModels under every kind of sink.
SinkNext ==
  \/ \E sink \in AllSinkKinds : CompareAllModels(sink)
  \/ \E p \in ProviderIds, reply \in FetchReplies : FetchSettles(p, reply)
  \/ \E p \in ProviderIds, body \in Bodies : BodySettles(p, body)
  \/ ResumeOpenAI
  \/ ResumeOllama

SinkSpec == Init /\ [][SinkNext]_vars

\* The store under visit creations and one deletion of a patient.
StoreSpec == Init /\ [][StoreNext]_vars

----------------------------------------------------------------------------
(* Properties                                                              *)

Entered(c) == callPc[c] = "idle" /\ callPc'[c] # "idle"

\* C1: single-flight initialization.  At most one pipeline call is in flight
\* at any time, and a call of analyzeSentiment or preloadSentimentModel made
\* while a load is pending starts no load and awaits the pending one.
C1_SingleFlight ==
  [][ /\ Cardinality(pipelineInFlight') <= 1
      /\ \A c \in Calls :
           (Entered(c) /\ pipelineInFlight # {}) =>
             /\ pipelineInFlight' = pipelineInFlight
             /\ callAwait'[c] \in pipelineInFlight
             /\ callPc'[c] = "awaitInit" ]_vars

\* Two invocations await the one load that is in flight.
C1_Witness ==
  \E c, d \in Calls :
    /\ c # d
    /\ callPc[c] = "awaitInit" /\ callPc[d] = "awaitInit"
    /\ callAwait[c] = callAwait[d]
    /\ pipelineInFlight = {callAwait[c]}

\* C2: retry after a failed load.  The failure of a load clears
\* isInitializing, and the next call made after it (no classifier, nothing in
\* flight) starts a load of its own and awaits that one, not the rejected
\* promise.
C2_RetryAfterFailure ==
  [][ /\ \A p \in Calls :
           (promiseState[p] = "pending" /\ promiseState'[p] = "rejected")
             => ~isInitializing'
      /\ \A c \in Calls :
           (/\ Entered(c)
            /\ sentimentClassifier = 0
            /\ pipelineInFlight = {}
            /\ \E p \in Calls : promiseState[p] = "rejected")
             => /\ pipelineInFlight' = {c}
                /\ promiseState'[c] = "pending"
                /\ initializationPromise' = c
                /\ callAwait'[c] = c ]_vars

\* A load failed, a later call started a second load, and that load produced
\* the classifier.
C2_Witness ==
  \E p, c \in Calls :
    /\ p # c
    /\ promiseState[p] = "rejected"
    /\ promiseState[c] = "resolved"
    /\ sentimentClassifier = c

\* C3: Ready is absorbing.  Once a classifier exists it is never replaced, no
\* load is started any more, and every invocation that holds a classifier
\* holds that one.
C3_ReadyAbsorbing ==
  [][ sentimentClassifier # 0 =>
        /\ sentimentClassifier' = sentimentClassifier
        /\ promiseState' = promiseState
        /\ pipelineInFlight' = {}
        /\ \A c \in Calls : callClassifier'[c] \in {0, sentimentClassifier} ]_vars

\* With the classifier loaded, one invocation got it from the load it awaited
\* and another, called later, got it from the early return.
C3_Witness ==
  \E c, d \in Calls :
    /\ c # d
    /\ sentimentClassifier # 0
    /\ callClassifier[c] = sentimentClassifier /\ callAwait[c] # 0
    /\ callClassifier[d] = sentimentClassifier /\ callAwait[d] = 0

\* C4: analyzeSentiment never rejects.  An invocation whose primary path
\* threw (its own load failed, the load it shared failed, or the classifier
\* threw) has returned, with analysis_type rule_based_fallback.
C4_NeverRejects ==
  \A c \in Calls :
    callKind[c] = "analyzeSentiment" =>
      /\ callResult[c] # "rejected"
      /\ callThrown[c] # "none" =>
           (callPc[c] = "done" /\ callResult[c] = "rule_based_fallback")
      /\ callPc[c] = "done" =>
           callResult[c] \in {"transformers_bert", "rule_based_fallback"}

\* The three ways the primary path fails, each with its fallback result.
C4_Witness ==
  \E a, b, c \in Calls :
    /\ callKind[a] = "analyzeSentiment" /\ callThrown[a] = "init_own"
    /\ callKind[b] = "analyzeSentiment" /\ callThrown[b] = "init_shared"
    /\ callKind[c] = "analyzeSentiment" /\ callThrown[c] = "classifier"
    /\ \A x \in {a, b, c} : callResult[x] = "rule_based_fallback"

HasSlot(p) == results.slot[p] # NULL
HasError(p) == results.errors[p] # UNDEFINED

\* C5: compareAllModels never rejects, and the Comparison Result it returns
\* holds for each provider either a success slot or an error entry, not both
\* and not neither: the slot if the call succeeded, the error if it failed.
C5_OneOutcomePerProvider ==
  /\ cmpOutcome # "rejected"
  /\ cmpOutcome = "resolved" =>
       \A p \in ProviderIds :
         /\ HasSlot(p) # HasError(p)
         /\ HasSlot(p) <=> provState[p] = "resolved"
         /\ HasError(p) <=> provState[p] = "rejected"

\* A result with one provider failed and the other succeeded.
C5_Witness ==
  /\ cmpOutcome = "resolved"
  /\ HasError("openai") /\ ~HasSlot("openai")
  /\ HasSlot("ollama") /\ ~HasError("ollama")

InFlight == {"fetching", "readingBody"}

\* A step of the program that starts the local provider's call while the
\* hosted call stays as it is.
StartsOllamaBesideOpenAI ==
  /\ Next
  /\ provState["ollama"] = "notStarted"
  /\ provState'["ollama"] # "notStarted"
  /\ provState'["openai"] = provState["openai"]

\* C6: the providers are invoked concurrently.  The local provider's call is
\* started without waiting for the hosted call to settle: while the hosted
\* call is in flight and the local one has not been started, the program can
\* start the local one.
C6_ConcurrentFanOut ==
  (provState["openai"] \in InFlight /\ provState["ollama"] = "notStarted")
    => ENABLED StartsOllamaBesideOpenAI

AfterOpenAIBlock == cmpPc \in {"awaitOllama", "returned", "awaitSentiment", "done"}

\* C7: failure isolation.  No provider failure leaves compareAllModels as an
\* exception; after a failed hosted call the local provider is invoked all
\* the same, and the result returned records each provider's own outcome,
\* whatever the other's was.
C7_FailureIsolation ==
  /\ cmpOutcome # "rejected"
  /\ cmpPc # "rejected"
  /\ (provState["openai"] = "rejected" /\ AfterOpenAIBlock) =>
       (provState["ollama"] # "notStarted" /\ results.errors["openai"] = provValue["openai"])
  /\ cmpOutcome = "resolved" =>
       \A p \in ProviderIds :
         /\ provState[p] = "resolved" => results.slot[p] = provValue[p]
         /\ provState[p] = "rejected" => results.errors[p] = provValue[p]

\* The hosted call failed and the local one was made and succeeded; both
\* outcomes are in the result.
C7_Witness ==
  /\ cmpOutcome = "resolved"
  /\ provState["openai"] = "rejected" /\ results.errors["openai"] = provValue["openai"]
  /\ provState["ollama"] = "resolved" /\ results.slot["ollama"] = provValue["ollama"]

EventsOf(p) == SelectSeq(progress, LAMBDA e : e[1] = p)

\* C8: per-provider progress ordering.  A sink that is passed receives for
\* each provider "running" before the call starts, then one terminal event
\* ("complete" for a call that succeeded, "error" for one that failed) and
\* nothing after it; when compareAllModels returns, each provider has both.
C8_ProgressOrdering ==
  onProgress = "returns" =>
    \A p \in ProviderIds :
      /\ Len(EventsOf(p)) <= 2
      /\ provState[p] # "notStarted" => Len(EventsOf(p)) >= 1
      /\ Len(EventsOf(p)) >= 1 => EventsOf(p)[1][2] = "running"
      /\ Len(EventsOf(p)) = 2 =>
           /\ provState[p] \in Settled
           /\ EventsOf(p)[2][2] =
                (IF provState[p] = "resolved" THEN "complete" ELSE "error")
      /\ cmpOutcome = "resolved" => Len(EventsOf(p)) = 2

\* A run in which the sink saw one provider complete and the other fail.
C8_Witness ==
  /\ onProgress = "returns"
  /\ cmpOutcome = "resolved"
  /\ progress = << <<"openai", "running">>, <<"openai", "complete">>,
                   <<"ollama", "running">>, <<"ollama", "error">> >>

Successes == {p \in ProviderIds : HasSlot(p)}

\* C9: getConsensusResult returns null exactly when the Comparison Result
\* holds no success; with a success it goes on to the local analysis and
\* returns a bundle.
C9_NullIffNoSuccess ==
  /\ consensus.returned = "null" => Successes = {}
  /\ consensus.returned = "bundle" => Successes # {}
  /\ cmpPc = "awaitSentiment" => Successes # {}
  /\ cmpPc = "done" =>
       consensus.returned = (IF Successes = {} THEN "null" ELSE "bundle")

\* Both providers failed and getConsensusResult returned null.
C9_Witness ==
  /\ consensus.returned = "null"
  /\ \A p \in ProviderIds : provState[p] = "rejected"

\* C10: base-provider priority.  ai_assessment carries the hosted provider's
\* suggestion whenever the hosted call succeeded, and the local provider's
\* suggestion when only the local call succeeded.
C10_BasePriority ==
  consensus.returned = "bundle" =>
    IF provState["openai"] = "resolved"
      THEN consensus.ai_assessment = provValue["openai"]
      ELSE /\ provState["ollama"] = "resolved"
           /\ consensus.ai_assessment = provValue["ollama"]

\* Both calls succeeded and the bundle carries the hosted suggestion.
C10_Witness ==
  /\ consensus.returned = "bundle"
  /\ provState["openai"] = "resolved" /\ provState["ollama"] = "resolved"
  /\ consensus.ai_assessment = Diagnostic("openai", "suggestion")

Range(seq) == {seq[i] : i \in 1..Len(seq)}

\* C11: consensus_note enumerates exactly the successful providers.  Its
\* count is the number of providers whose call succeeded and its list names
\* each of them once and no other.
C11_NoteListsSuccesses ==
  consensus.returned = "bundle" =>
    LET succeeded == {p \in ProviderIds : provState[p] = "resolved"} IN
    /\ consensus.consensus_note.count = Cardinality(succeeded)
    /\ Len(consensus.consensus_note.models) = Cardinality(succeeded)
    /\ Range(consensus.consensus_note.models) = succeeded

\* Both providers succeeded and the note names both, the base and the other.
C11_Witness ==
  /\ consensus.returned = "bundle"
  /\ consensus.ai_assessment = provValue["openai"]
  /\ consensus.consensus_note = [count |-> 2, models |-> <<"openai", "ollama">>]

\* C12: a response that is JSON of another shape than a diagnostic
\* suggestion is that provider's failure.  It is not stored in the provider's
\* slot, the provider gets an error entry, and it does not become
\* ai_assessment.
C12_WrongShapeIsFailure ==
  \A p \in ProviderIds :
    provBody[p] = "wrong_shape" =>
      /\ provState[p] = "rejected"
      /\ ~HasSlot(p)
      /\ cmpOutcome = "resolved" => HasError(p)
      /\ consensus.ai_assessment # Diagnostic(p, "wrong_shape")

\* C13: without the hosted provider's credential the hosted call fails with
\* no request issued for it, is recorded as an error, and the local provider
\* is called all the same.
C13_MissingKeyFailsFast ==
  ~apiKey =>
    /\ fetchCount["openai"] = 0
    /\ provState["openai"] \in {"notStarted", "rejected"}
    /\ AfterOpenAIBlock =>
         /\ results.errors["openai"] = "OpenAI API key not configured"
         /\ ~HasSlot("openai")
         /\ provState["ollama"] # "notStarted"
         /\ fetchCount["ollama"] = 1

\* No key: the hosted provider has its error entry, no request went out for
\* it, and the local provider answered.
C13_Witness ==
  /\ ~apiKey
  /\ cmpOutcome = "resolved"
  /\ HasError("openai") /\ fetchCount["openai"] = 0
  /\ HasSlot("ollama") /\ fetchCount["ollama"] = 1

\* C14: single attempt, no retry.  Each provider has at most one request
\* issued in a run, and a provider whose call has settled is not called
\* again: its state, its value and its request count stay as they are.
C14_SingleAttempt ==
  [][ \A p \in ProviderIds :
        /\ fetchCount'[p] <= 1
        /\ provState[p] \in Settled =>
             /\ provState'[p] = provState[p]
             /\ provValue'[p] = provValue[p]
             /\ fetchCount'[p] = fetchCount[p] ]_vars

\* Both requests failed, one request each, and the run is over.
C14_Witness ==
  /\ cmpPc = "done"
  /\ \A p \in ProviderIds :
       provState[p] = "rejected" /\ provValue[p] = "Failed to fetch" /\ fetchCount[p] = 1

----------------------------------------------------------------------------
(* Keyword analysis                                                        *)

\* The tokens of the text as the analyzer sees them.
Tokens == SplitWhitespace(ToLowerCase(text))

\* The phrases among the terms of the match map.
IsPhrase(term) ==
  \E ci \in 1..Len(DIAGNOSTIC_KEYWORDS) : Includes(DIAGNOSTIC_KEYWORDS[ci].phrases, term)

IsWord(term) ==
  \E ci \in 1..Len(DIAGNOSTIC_KEYWORDS) : Includes(DIAGNOSTIC_KEYWORDS[ci].words, term)

CountOf(dk, term) == IF HasKey(dk, term) THEN dk[KeyIndex(dk, term)].count ELSE 0

\* C15: the keyword percentage lies between 0 and 100 (in tenths of a percent:
\* 0 and 1000), because the counts of the match map sum to no more than
\* total_words; and it is 0 when total_words is 0.
C15_PercentageInRange ==
  keywordAnalysis.returned =>
    /\ keywordAnalysis.keyword_percentage >= 0
    /\ keywordAnalysis.keyword_percentage <= 1000
    /\ SumCounts(keywordAnalysis.diagnostic_keywords) <= keywordAnalysis.total_words
    /\ keywordAnalysis.total_words = 0 => keywordAnalysis.keyword_percentage = 0

\* Every token of a text of several tokens is a keyword.
C15_Witness ==
  /\ keywordAnalysis.returned
  /\ keywordAnalysis.total_words >= 2
  /\ keywordAnalysis.keyword_percentage = 1000

\* C16: top_keywords has at most 10 entries, their counts never increase, and
\* entries of the same count stand in the order in which the match map got
\* them.
C16_TopKeywordsOrdered ==
  keywordAnalysis.returned =>
    LET top == keywordAnalysis.top_keywords
        dk == keywordAnalysis.diagnostic_keywords
    IN /\ Len(top) <= 10
       /\ \A i \in 1..Len(top) : HasKey(dk, top[i].term)
       /\ \A i, j \in 1..Len(top) :
            i < j =>
              /\ top[i].count >= top[j].count
              /\ top[i].count = top[j].count =>
                   KeyIndex(dk, top[i].term) < KeyIndex(dk, top[j].term)

\* More than ten terms matched, and two of the reported ones equally often.
C16_Witness ==
  /\ keywordAnalysis.returned
  /\ Len(keywordAnalysis.diagnostic_keywords) > 10
  /\ Len(keywordAnalysis.top_keywords) = 10
  /\ keywordAnalysis.top_keywords[2].count = keywordAnalysis.top_keywords[3].count
  /\ keywordAnalysis.top_keywords[1].count > keywordAnalysis.top_keywords[2].count

\* C17: when a phrase has matched, no token that is one of the words of that
\* phrase is counted as a single word.
C17_NoDoubleCounting ==
  keywordAnalysis.returned =>
    LET dk == keywordAnalysis.diagnostic_keywords IN
    \A i \in 1..Len(dk) :
      IsPhrase(dk[i].term) =>
        \A w \in Range(SplitWhitespace(dk[i].term)) : ~HasKey(dk, w)

\* A phrase matched, and a token of the text is a word of that phrase which
\* the taxonomy also lists as a single word.
C17_Witness ==
  /\ keywordAnalysis.returned
  /\ \E i \in 1..Len(keywordAnalysis.diagnostic_keywords) :
       LET term == keywordAnalysis.diagnostic_keywords[i].term IN
       /\ IsPhrase(term)
       /\ \E w \in Range(SplitWhitespace(term)) : IsWord(w) /\ w \in Range(Tokens)

\* C18 as stated: for BreathText the phrases "chest pain" and "shortness of
\* breath" are counted once each and the word "pain" is counted once for its
\* occurrence outside the phrase.
C18_StandalonePainCounted ==
  (keywordAnalysis.returned /\ text = BreathText) =>
    LET dk == keywordAnalysis.diagnostic_keywords IN
    /\ CountOf(dk, "chest pain") = 1
    /\ CountOf(dk, "shortness of breath") = 1
    /\ CountOf(dk, "pain") = 1

\* C18: for BreathText the phrases "chest pain" and "shortness of breath" are
\* counted once each, under CARDIOVASCULAR, and nothing else is: the word
\* "pain" outside the phrase is contained in the phrases found and skipped.
C18_StandalonePainSkipped ==
  (keywordAnalysis.returned /\ text = BreathText) =>
    keywordAnalysis.diagnostic_keywords =
      << [term |-> "chest pain", count |-> 1, category |-> "CARDIOVASCULAR"],
         [term |-> "shortness of breath", count |-> 1, category |-> "CARDIOVASCULAR"] >>

C18_Witness ==
  /\ keywordAnalysis.returned
  /\ text = BreathText
  /\ Includes(Tokens, "pain")

\* C19: for the empty text total_words is 0, the match map is empty, the
\* percentage is 0 and top_keywords is empty.
C19_EmptyText ==
  (keywordAnalysis.returned /\ text = "") =>
    /\ keywordAnalysis.total_words = 0
    /\ keywordAnalysis.diagnostic_keywords = <<>>
    /\ keywordAnalysis.keyword_percentage = 0
    /\ keywordAnalysis.top_keywords = <<>>

----------------------------------------------------------------------------
(* Sentiment result                                                        *)

\* C20: the sentiment score lies between -1 and 1 (in hundredths: -100 and
\* 100), on the fallback path for all counts, both zero included, and on the
\* primary path for every confidence between 0 and 1 and either label.
C20_ScoreInRange ==
  sentimentOutput.returned =>
    /\ sentimentOutput.sentiment_score >= 0 - 100
    /\ sentimentOutput.sentiment_score <= 100

\* The fallback on a text without positive or negative words.
C20_Witness ==
  /\ sentimentOutput.returned
  /\ sentimentOutput.analysis_type = "rule_based_fallback"
  /\ sentimentInput.positiveCount = 0
  /\ sentimentInput.negativeCount = 0
  /\ sentimentOutput.sentiment_score = 0

----------------------------------------------------------------------------
(* The visit page's handler                                                *)

\* C21: when every provider failed the handler reports that all models
\* failed and stops, without reading a field of the null consensus (which
\* would end in the error alert) and without creating a visit; a visit is
\* created only from a consensus that is not null.
C21_NullConsensusStops ==
  /\ (cmpPc = "done" /\ Successes = {}) =>
       /\ consensus.returned = "null"
       /\ handlerOutcome = "all_failed_alert"
  /\ handlerOutcome = "visit_created" =>
       /\ consensus.returned = "bundle"
       /\ Successes # {}

\* Both providers failed and the handler has finished.
C21_Witness ==
  /\ cmpPc = "done"
  /\ provState["openai"] = "rejected"
  /\ provState["ollama"] = "rejected"
  /\ handlerOutcome = "all_failed_alert"

\* C22: on the fallback path, with score = (p - n) / max(p + n, 1), the
\* sentiment is positive exactly when score > 0.2, negative exactly when
\* score < -0.2 and neutral otherwise, so neutral for p = n = 0; the distress
\* level is high for more than 2 distress words, medium for 1 or 2, low for 0.
C22_FallbackThresholds ==
  (sentimentOutput.returned /\ sentimentOutput.analysis_type = "rule_based_fallback") =>
    LET p == sentimentInput.positiveCount
        n == sentimentInput.negativeCount
        d == sentimentInput.distressCount
        total == IF p + n = 0 THEN 1 ELSE p + n
    IN /\ sentimentOutput.overall_sentiment = "positive" <=> 10 * (p - n) > 2 * total
       /\ sentimentOutput.overall_sentiment = "negative" <=> 10 * (p - n) < 0 - 2 * total
       /\ sentimentOutput.overall_sentiment \in {"positive", "negative", "neutral"}
       /\ (p = 0 /\ n = 0) => sentimentOutput.overall_sentiment = "neutral"
       /\ sentimentOutput.distress_level = "high" <=> d > 2
       /\ sentimentOutput.distress_level = "medium" <=> d \in {1, 2}
       /\ sentimentOutput.distress_level = "low" <=> d = 0

\* The score is exactly 0.2 (p = 3, n = 2) and two distress words occur.
C22_Witness ==
  /\ sentimentOutput.returned
  /\ sentimentOutput.analysis_type = "rule_based_fallback"
  /\ sentimentInput.positiveCount = 3
  /\ sentimentInput.negativeCount = 2
  /\ sentimentInput.distressCount = 2
  /\ sentimentOutput.overall_sentiment = "neutral"
  /\ sentimentOutput.distress_level = "medium"

\* C23: the handler hands compareAllModels the transcription string, the text
\* it hands getConsensusResult, and no provider is prompted with anything but
\* that string.
C23_ProvidersGetTranscription ==
  /\ cmpInput.kind # "none" =>
       /\ cmpInput.kind = "string"
       /\ cmpInput.transcription = transcription
  /\ consensusInput # "" => consensusInput = transcription
  /\ \A p \in ProviderIds : prompts[p] # "" => prompts[p] = transcription

----------------------------------------------------------------------------
(* The store                                                               *)

\* C24: once the deletion of a patient has completed, no stored visit has
\* the deleted patient's id as patient_id, however visit creations for that
\* patient interleave with it.
C24_NoVisitOfDeletedPatient ==
  deletePc = "done" => \A v \in storeVisits : v.patient_id # deleteTarget

----------------------------------------------------------------------------
(* compareAllModels under every sink                                       *)

\* C25: whatever the sink does, also when it throws, no provider has both a
\* success slot and an error entry in a Comparison Result that
\* compareAllModels returns.
C25_NoSlotWithError ==
  cmpOutcome = "resolved" =>
    \A p \in ProviderIds : ~(HasSlot(p) /\ HasError(p))

\* C27: getConsensusResult given a Comparison Result with zero successes
\* returns null without running a local analysis: the step starts no load of
\* the sentiment model and leaves the classifier instance, the initializing
\* flag and the in-flight operation as they were, and no invocation of
\* analyzeSentiment begins.
C27_NullConsensusLeavesClassifier ==
  [][(cmpPc = "returned" /\ Successes = {} /\ cmpPc' # cmpPc) =>
       /\ cmpPc' = "done"
       /\ consensus'.returned = "null"
       /\ UNCHANGED <<sentimentClassifier, isInitializing, initializationPromise,
                      promiseState, pipelineInFlight>>
       /\ UNCHANGED callVars]_vars

\* getConsensusResult has returned null while the preload's model load was
\* in flight, and the load is still in flight.
C27_Witness ==
  /\ cmpPc = "done"
  /\ Successes = {}
  /\ consensus.returned = "null"
  /\ isInitializing
  /\ pipelineInFlight # {}
  /\ callPc[ConsensusCall] = "idle"

----------------------------------------------------------------------------
(* Semantic analysis                                                       *)

Themes == {THEME_RULES[i].theme : i \in 1..Len(THEME_RULES)}

\* A text for which analyzeSemantics returns the theme among its key_themes.
ProducesTheme(t, theme) == Includes(AnalyzeSemantics(t).key_themes, theme)

\* C26: each of the six themes is producible: before the call, for every
\* theme there is a text for which analyzeSemantics returns it.
C26_EveryThemeProducible ==
  ~semanticAnalysis.returned =>
    \A theme \in Themes : \E t \in SemanticTexts : ProducesTheme(t, theme)

----------------------------------------------------------------------------
(* The transcription service                                               *)

\* A start() that has passed the isRecording test and has not completed: it
\* awaits the connection or the answer to its start request.
StartInFlight(k) == startPc[k] \in {"awaitConnect", "awaitFetch"}

\* C28: at most one start per recording: a start() called while an earlier
\* start() has not completed fails with 'Transcription is already running';
\* while a start() is in flight no other start() sends a start request or
\* overwrites sessionId.
C28_OneStartPerRecording ==
  [][\A k \in StartCalls :
       (\E j \in StartCalls \ {k} : StartInFlight(j)) =>
          /\ (startPc[k] = "idle" /\ startPc'[k] # "idle") =>
                startPc'[k] = "already_running"
          /\ (startPc[k] = "awaitConnect" /\ startPc'[k] = "awaitFetch") =>
                /\ startRequests' = startRequests
                /\ sessionId' = sessionId]_vars

\* C29: at most one live socket with one set of handlers, so that no
\* transcription_update reaches a registered listener more than once.
C29_OneSocketOneDelivery ==
  /\ Cardinality(LiveSockets) <= 1
  /\ \A l \in ListenerIds, u \in UpdateIds : delivered[l][u] <= 1


----------------------------------------------------------------------------
(* Liveness of the fan-out                                                 *)

\* The provider's call is under way: its fetch or the reading of the
\* response body has not settled.
ProviderPending(p) == provState[p] \in {"fetching", "readingBody"}

\* The sink has received the provider's terminal event after "running".
HasTerminalEvent(p) ==
  /\ Len(EventsOf(p)) = 2
  /\ EventsOf(p)[2][2] \in {"complete", "error"}

\* C30: if every provider call that is under way eventually resolves or
\* rejects (the sink being one that returns), a compareAllModels that was
\* called eventually resolves, and by then the sink has received each
\* provider's terminal event, "complete" or "error": none is left at
\* "running".
C30_FanOutTerminates ==
  (\A p \in ProviderIds :
      ProviderPending(p) ~> (provState[p] \in {"resolved", "rejected"}))
  => ((cmpPc # "idle") ~>
        (/\ cmpOutcome = "resolved"
         /\ onProgress = "returns" => \A p \in ProviderIds : HasTerminalEvent(p)))

\* compareAllModels has resolved after both providers were fetched, the
\* hosted one failing and the local one answering.
C30_Witness ==
  /\ cmpOutcome = "resolved"
  /\ onProgress = "returns"
  /\ \A p \in ProviderIds : fetchCount[p] = 1 /\ HasTerminalEvent(p)
  /\ EventsOf("openai")[2][2] = "error"
  /\ EventsOf("ollama")[2][2] = "complete"

============================================================================
